---------------------------- MODULE Spec2Model ----------------------------
(***************************************************************************)
(* Model of icons/generate_icons.py: main() walks a fixed list of          *)
(* (size, filename) pairs and calls create_icon for each; create_icon      *)
(* allocates a size x size RGB buffer, paints a row-by-row gradient, picks *)
(* a font, measures and draws the label, draws the cursor rectangle, saves *)
(* the buffer as a PNG and prints a confirmation.                          *)
(*                                                                         *)
(* Pixel coordinates are 0-based as in the source: img[row][column].       *)
(* A colour is the triple <<r, g, b>>.                                     *)
(***************************************************************************)
EXTENDS Integers, Sequences, FiniteSets

VARIABLES
    pc,           \* position of the single thread of control
    i,            \* main: number of entries of `sizes` the for loop has taken
    size,         \* create_icon parameter (main's loop variable)
    filename,     \* create_icon parameter: the output path
    img,          \* the pixel buffer of the running create_icon, <<>> if none
    y,            \* local y: the gradient row during the loop, then the text origin
    x,            \* local x: the text origin
    font,         \* the font in use: its kind and, for the bold font, its size
    text_width,   \* bbox[2] - bbox[0]
    text_height,  \* bbox[3] - bbox[1]
    cursor,       \* locals cursor_x, cursor_y, cursor_width, cursor_height
    files,        \* the output directory: filename -> file
    stdout,       \* the lines printed so far
    calls,        \* the create_icon invocations made so far, <<size, filename>> each
    raised        \* origin of the exception that ended the run, "none" if none

vars == <<pc, i, size, filename, img, y, x, font, text_width, text_height,
          cursor, files, stdout, calls, raised>>

-----------------------------------------------------------------------------
(* Bounds of the model (not program constants).                            *)

\* The largest label bounding box side the font measurement may report.
MaxTextDim == 20

\* The largest size of a direct create_icon call in SpecRender.
MaxRenderSize == 6

-----------------------------------------------------------------------------
(* Program constants.                                                      *)

sizes == << <<16, "icon16.png">>, <<48, "icon48.png">>, <<128, "icon128.png">> >>

Filenames == {sizes[k][2] : k \in 1..Len(sizes)}

BaseColor  == <<102, 126, 234>>     \* '#667eea'
StartColor == <<102, 126, 234>>
EndColor   == <<118, 75, 162>>
White      == <<255, 255, 255>>     \* 'white'; also (255, 255, 255, 200) on an RGB buffer

Created(f) == <<"Created", f>>
Summary    == <<"All icons generated successfully!">>

NoFont   == [kind |-> "none", size |-> 0]
NoCursor == [x |-> 0, y |-> 0, width |-> 0, height |-> 0]
NoFile   == [state |-> "absent", side |-> 0, pixels |-> <<>>]
Stale    == [state |-> "stale", side |-> 0, pixels |-> <<>>]
Partial  == [state |-> "partial", side |-> 0, pixels |-> <<>>]

RenderPcs == {"new", "gradient", "font", "measure", "text", "accent", "save",
              "print", "return"}

-----------------------------------------------------------------------------
(* Arithmetic of create_icon.                                              *)

Max(a, b) == IF a >= b THEN a ELSE b

Min(a, b) == IF a <= b THEN a ELSE b

\* int(size * 0.pp): the product truncated.  The source multiplies by a binary
\* float; for every size used here (0..8, 16, 48, 128) the float product
\* truncates to the same integer as the exact one.
Pct(s, p) == (s * p) \div 100

\* int(a + (b - a) * ratio) with ratio = row / s; all values are positive, so
\* truncation is the floor.
Lerp(a, b, row, s) == (a * s + (b - a) * row) \div s

GradientColorReversed(row, s) ==
    <<Lerp(StartColor[1], EndColor[1], s - row, s),
      Lerp(StartColor[2], EndColor[2], s - row, s),
      Lerp(StartColor[3], EndColor[3], s - row, s)>>

GradientColor(row, s) ==
    <<Lerp(StartColor[1], EndColor[1], row, s),
      Lerp(StartColor[2], EndColor[2], row, s),
      Lerp(StartColor[3], EndColor[3], row, s)>>

font_size(s) == Pct(s, 45)

\* round(p/100 * s), half to even, as Python's round() does.
Round(s, p) ==
    LET q == (s * p) \div 100
        r == (s * p) % 100
    IN  IF r > 50 \/ (r = 50 /\ q % 2 = 1) THEN q + 1 ELSE q

cursor_x_rounded(s) == Round(s, 70)

cursor_x(s) == Pct(s, 70)

cursor_y(s) == Pct(s, 39)

cursor_width(s) == Max(Pct(s, 3), 2)

cursor_height_typo(s) == Pct(s, 65)

cursor_height(s) == Pct(s, 25)

-----------------------------------------------------------------------------
(* Drawing primitives of the imaging library, on a side x side buffer.     *)
(* Both corners of a rectangle and both ends of a line are inclusive, and  *)
(* whatever falls outside the buffer is clipped.                           *)

NewBuffer(side, c) == [row \in 0..(side - 1) |-> [col \in 0..(side - 1) |-> c]]

DrawRectangle(im, side, x0, y0, x1, y1, c) ==
    [row \in 0..(side - 1) |->
        IF y0 <= row /\ row <= y1
        THEN [col \in 0..(side - 1) |->
                 IF x0 <= col /\ col <= x1 THEN c ELSE im[row][col]]
        ELSE im[row]]

DrawLine(im, side, x0, x1, row, c) == DrawRectangle(im, side, x0, row, x1, row, c)

\* The pixels <<row, column>> of the buffer a rectangle with inclusive corners
\* covers: the rectangle clipped to the buffer.
RectPixels(side, x0, y0, x1, y1) ==
    (Max(y0, 0)..Min(y1, side - 1)) \X (Max(x0, 0)..Min(x1, side - 1))

-----------------------------------------------------------------------------
(* main()                                                                  *)

\* Label bounding boxes the font measurement may report.  Glyph shapes are not
\* modelled: the label's ink is the whole box, placed at the text origin.
TextDims == {0, MaxTextDim}

\* What the output directory may hold before the run.
DiskStates == [Filenames -> {NoFile, Stale}]

NoLocals ==
    /\ img = <<>>
    /\ y = 0
    /\ x = 0
    /\ font = NoFont
    /\ text_width = 0
    /\ text_height = 0
    /\ cursor = NoCursor

Init ==
    /\ pc = "loop"
    /\ i = 0
    /\ size = 0
    /\ filename = ""
    /\ NoLocals
    /\ files \in DiskStates
    /\ stdout = <<>>
    /\ calls = <<>>
    /\ raised = "none"

\* The for loop takes the entries from the end of the list.
LoopNextReversed ==
    /\ pc = "loop"
    /\ i < Len(sizes)
    /\ i' = i + 1
    /\ size' = sizes[Len(sizes) - i][1]
    /\ filename' = sizes[Len(sizes) - i][2]
    /\ calls' = Append(calls, sizes[Len(sizes) - i])
    /\ pc' = "new"
    /\ UNCHANGED <<img, y, x, font, text_width, text_height, cursor, files,
                   stdout, raised>>

\* for size, filename in sizes: ... create_icon(size, filepath)
LoopNext ==
    /\ pc = "loop"
    /\ i < Len(sizes)
    /\ i' = i + 1
    /\ size' = sizes[i + 1][1]
    /\ filename' = sizes[i + 1][2]
    /\ calls' = Append(calls, sizes[i + 1])
    /\ pc' = "new"
    /\ UNCHANGED <<img, y, x, font, text_width, text_height, cursor, files,
                   stdout, raised>>

\* The list is exhausted: control leaves the for loop.
LoopExhausted ==
    /\ pc = "loop"
    /\ i >= Len(sizes)
    /\ pc' = "summary"
    /\ UNCHANGED <<i, size, filename, img, y, x, font, text_width, text_height,
                   cursor, files, stdout, calls, raised>>

\* print("All icons generated successfully!")
PrintSummary ==
    /\ pc = "summary"
    /\ stdout' = Append(stdout, Summary)
    /\ pc' = "done"
    /\ UNCHANGED <<i, size, filename, img, y, x, font, text_width, text_height,
                   cursor, files, calls, raised>>

-----------------------------------------------------------------------------
(* create_icon(size, filename)                                             *)

\* img = Image.new('RGB', (size, size), color='#667eea'); the for loop starts.
NewImage ==
    /\ pc = "new"
    /\ img' = NewBuffer(size, BaseColor)
    /\ y' = 0
    /\ pc' = "gradient"
    /\ UNCHANGED <<i, size, filename, x, font, text_width, text_height, cursor,
                   files, stdout, calls, raised>>

\* One iteration of for y in range(size): the line from (0, y) to (size, y).
GradientRow ==
    /\ pc = "gradient"
    /\ y < size
    /\ img' = DrawLine(img, size, 0, size, y, GradientColor(y, size))
    /\ y' = y + 1
    /\ UNCHANGED <<pc, i, size, filename, x, font, text_width, text_height,
                   cursor, files, stdout, calls, raised>>

\* range(size) is exhausted.
GradientEnd ==
    /\ pc = "gradient"
    /\ y >= size
    /\ pc' = "font"
    /\ UNCHANGED <<i, size, filename, img, y, x, font, text_width, text_height,
                   cursor, files, stdout, calls, raised>>

\* font_size = int(size * 0.45); ImageFont.truetype(...) returns the bold font.
LoadFontOk ==
    /\ pc = "font"
    /\ font' = [kind |-> "truetype", size |-> font_size(size)]
    /\ pc' = "measure"
    /\ UNCHANGED <<i, size, filename, img, y, x, text_width, text_height, cursor,
                   files, stdout, calls, raised>>

\* ImageFont.truetype(...) raises and nothing catches it.
LoadFontRaises ==
    /\ pc = "font"
    /\ raised' = "truetype"
    /\ pc' = "error"
    /\ UNCHANGED <<i, size, filename, img, y, x, font, text_width, text_height,
                   cursor, files, stdout, calls>>

\* ImageFont.truetype(...) raises; the bare except loads the default font.
LoadFontFallback ==
    /\ pc = "font"
    /\ font' = [kind |-> "default", size |-> 0]
    /\ pc' = "measure"
    /\ UNCHANGED <<i, size, filename, img, y, x, text_width, text_height, cursor,
                   files, stdout, calls, raised>>

\* bbox = draw.textbbox(...); text_width, text_height, x and y.
MeasureText ==
    /\ pc = "measure"
    /\ \E tw \in TextDims, th \in TextDims :
          /\ text_width' = tw
          /\ text_height' = th
          /\ x' = (size - tw) \div 2
          /\ y' = (size - th) \div 2 - Pct(size, 5)
    /\ pc' = "text"
    /\ UNCHANGED <<i, size, filename, img, font, cursor, files, stdout, calls,
                   raised>>

\* draw.text((x, y), text, fill='white', font=font)
DrawText ==
    /\ pc = "text"
    /\ img' = DrawRectangle(img, size, x, y, x + text_width - 1,
                            y + text_height - 1, White)
    /\ pc' = "accent"
    /\ UNCHANGED <<i, size, filename, y, x, font, text_width, text_height,
                   cursor, files, stdout, calls, raised>>

\* The rectangle is drawn with the coordinates of its corners swapped.
DrawAccentTransposed ==
    /\ pc = "accent"
    /\ cursor' = [x |-> cursor_x(size), y |-> cursor_y(size),
                  width |-> cursor_width(size), height |-> cursor_height(size)]
    /\ img' = DrawRectangle(img, size, cursor'.y, cursor'.x,
                            cursor'.y + cursor'.height, cursor'.x + cursor'.width,
                            White)
    /\ pc' = "save"
    /\ UNCHANGED <<i, size, filename, y, x, font, text_width, text_height, files,
                   stdout, calls, raised>>

\* cursor_x .. cursor_height, then draw.rectangle([(cursor_x, cursor_y),
\* (cursor_x + cursor_width, cursor_y + cursor_height)], fill=...)
DrawAccent ==
    /\ pc = "accent"
    /\ cursor' = [x |-> cursor_x(size), y |-> cursor_y(size),
                  width |-> cursor_width(size), height |-> cursor_height(size)]
    /\ img' = DrawRectangle(img, size, cursor'.x, cursor'.y,
                            cursor'.x + cursor'.width, cursor'.y + cursor'.height,
                            White)
    /\ pc' = "save"
    /\ UNCHANGED <<i, size, filename, y, x, font, text_width, text_height, files,
                   stdout, calls, raised>>

\* img.save(filename, 'PNG') writes the buffer, replacing what was there.
SaveOk ==
    /\ pc = "save"
    /\ files' = [files EXCEPT ![filename] =
                    [state |-> "png", side |-> size, pixels |-> img]]
    /\ pc' = "print"
    /\ UNCHANGED <<i, size, filename, img, y, x, font, text_width, text_height,
                   cursor, stdout, calls, raised>>

\* img.save raises, and the failure is dropped: create_icon returns normally.
SaveFailSwallowed ==
    /\ pc = "save"
    /\ \E f \in {files[filename], Partial} :
          files' = [files EXCEPT ![filename] = f]
    /\ pc' = "return"
    /\ UNCHANGED <<i, size, filename, img, y, x, font, text_width, text_height,
                   cursor, stdout, calls, raised>>

\* img.save raises (the path cannot be opened, or the write fails part-way):
\* the file is left as it was or left incomplete, and the exception leaves
\* create_icon and main, which catch nothing.
SaveFail ==
    /\ pc = "save"
    /\ \E f \in {files[filename], Partial} :
          files' = [files EXCEPT ![filename] = f]
    /\ raised' = "save"
    /\ pc' = "error"
    /\ UNCHANGED <<i, size, filename, img, y, x, font, text_width, text_height,
                   cursor, stdout, calls>>

\* print(f"Created {filename}")
PrintCreated ==
    /\ pc = "print"
    /\ stdout' = Append(stdout, Created(filename))
    /\ pc' = "return"
    /\ UNCHANGED <<i, size, filename, img, y, x, font, text_width, text_height,
                   cursor, files, calls, raised>>

DiscardLocals ==
    /\ img' = <<>>
    /\ y' = 0
    /\ x' = 0
    /\ font' = NoFont
    /\ text_width' = 0
    /\ text_height' = 0
    /\ cursor' = NoCursor

\* create_icon returns and control leaves main's loop as well.
ReturnLeavesLoop ==
    /\ pc = "return"
    /\ DiscardLocals
    /\ pc' = "summary"
    /\ UNCHANGED <<i, size, filename, files, stdout, calls, raised>>

\* create_icon returns to main's loop; its locals are gone.
Return ==
    /\ pc = "return"
    /\ DiscardLocals
    /\ pc' = "loop"
    /\ UNCHANGED <<i, size, filename, files, stdout, calls, raised>>

Next ==
    \/ LoopNext
    \/ LoopExhausted
    \/ PrintSummary
    \/ NewImage
    \/ GradientRow
    \/ GradientEnd
    \/ LoadFontOk
    \/ LoadFontFallback
    \/ MeasureText
    \/ DrawText
    \/ DrawAccent
    \/ SaveOk
    \/ SaveFail
    \/ PrintCreated
    \/ Return

Spec == Init /\ [][Next]_vars

-----------------------------------------------------------------------------
(* create_icon called on its own, with any size from 0 to MaxRenderSize.   *)

RenderSizes == 0..MaxRenderSize

InitRender ==
    /\ pc = "new"
    /\ i = 0
    /\ size \in RenderSizes
    /\ filename \in Filenames
    /\ NoLocals
    /\ files \in DiskStates
    /\ stdout = <<>>
    /\ calls = << <<size, filename>> >>
    /\ raised = "none"

\* create_icon returns to its caller.
ReturnToCaller ==
    /\ pc = "return"
    /\ DiscardLocals
    /\ pc' = "done"
    /\ UNCHANGED <<i, size, filename, files, stdout, calls, raised>>

NextRender ==
    \/ NewImage
    \/ GradientRow
    \/ GradientEnd
    \/ LoadFontOk
    \/ LoadFontFallback
    \/ MeasureText
    \/ DrawText
    \/ DrawAccent
    \/ SaveOk
    \/ SaveFail
    \/ PrintCreated
    \/ ReturnToCaller

SpecRender == InitRender /\ [][NextRender]_vars

-----------------------------------------------------------------------------
(* Vocabulary of the properties.                                           *)

\* The k-th entry's file is on disk, written by this run at the entry's size.
Written(k) ==
    /\ files[sizes[k][2]].state = "png"
    /\ files[sizes[k][2]].side = sizes[k][1]

InRect(row, col, x0, y0, x1, y1) ==
    /\ y0 <= row /\ row <= y1
    /\ x0 <= col /\ col <= x1

InText(row, col) ==
    InRect(row, col, x, y, x + text_width - 1, y + text_height - 1)

InAccent(row, col) ==
    InRect(row, col, cursor.x, cursor.y, cursor.x + cursor.width,
           cursor.y + cursor.height)

\* The pixel columns of the buffer the cursor rectangle fills.
AccentColumns ==
    {p[2] : p \in RectPixels(size, cursor.x, cursor.y, cursor.x + cursor.width,
                             cursor.y + cursor.height)}

Abs(n) == IF n >= 0 THEN n ELSE -n

Near(c, d) == \A ch \in 1..3 : Abs(c[ch] - d[ch]) <= 1

ExpectedOutput ==
    <<Created(sizes[1][2]), Created(sizes[2][2]), Created(sizes[3][2]), Summary>>

RenderOver(k) == k < Len(calls) \/ pc \notin RenderPcs

-----------------------------------------------------------------------------
(* C1: the create_icon invocations made so far are always the first        *)
(* entries of the list, in list order and once each (16, 48, 128); when a  *)
(* render begins, every earlier entry's file has been written and its      *)
(* confirmation printed; the render in progress is the one of the latest   *)
(* entry; and a run that reaches the end of main has rendered all three.   *)
C1_OneRenderPerEntryInOrder ==
    /\ Len(calls) = i
    /\ Len(calls) <= Len(sizes)
    /\ \A k \in 1..Len(calls) : calls[k] = sizes[k]
    /\ \A k \in 1..(Len(calls) - 1) :
          /\ Written(k)
          /\ Len(stdout) >= k
          /\ stdout[k] = Created(sizes[k][2])
    /\ pc \in RenderPcs =>
          /\ Len(calls) >= 1
          /\ <<size, filename>> = calls[Len(calls)]
          /\ Len(stdout) = Len(calls) - (IF pc = "return" THEN 0 ELSE 1)
    /\ pc \in {"summary", "done"} => calls = sizes

C1_Witness ==
    /\ pc = "done"
    /\ calls = sizes
    /\ \A k \in 1..Len(sizes) : Written(k)

(* C2: when the render of the k-th icon is over and its file was not       *)
(* written (the save failed), the run has stopped in the error state: the  *)
(* files of the icons before k are on disk, k is the last render ever      *)
(* started and was started once, only the confirmations of the icons       *)
(* before k were printed, the summary line was not, and nothing more       *)
(* happens.                                                                *)
C2_FailureAbortsRun ==
    /\ \A k \in 1..Len(calls) :
          (RenderOver(k) /\ ~Written(k)) =>
              /\ pc = "error"
              /\ raised = "save"
              /\ Len(calls) = k
              /\ \A j \in 1..(k - 1) : Written(j) /\ calls[j] # calls[k]
              /\ stdout = SubSeq(ExpectedOutput, 1, k - 1)
    /\ pc = "error" => ~ENABLED Next

C2_Witness ==
    /\ pc = "error"
    /\ Len(calls) = 2
    /\ Written(1)
    /\ ~Written(2)

(* C3 (as claimed): a render with size <= 0 never gets past its entry      *)
(* except into the error outcome: no buffer is painted, no file is written *)
(* to the output path and no confirmation is printed.                      *)
C3_InvalidSizeRejected ==
    size <= 0 =>
        /\ pc \in {"new", "error"}
        /\ files[filename].state # "png"
        /\ stdout = <<>>

(* C4: a font-load failure is never the failure of a run, and a render     *)
(* goes on the same way with either font: once past the text step the      *)
(* label's box is white, once past the accent step the rectangle is white, *)
(* once past the save the output path holds the buffer, on return the      *)
(* confirmation is the last line printed; and only the files of the        *)
(* renders invoked are ever written.                                       *)
C4_FontFallbackContinues ==
    /\ raised # "truetype"
    /\ pc = "error" => raised = "save"
    /\ pc \in {"measure", "text", "accent", "save", "print", "return"} =>
          font.kind \in {"truetype", "default"}
    /\ pc \in {"accent", "save", "print", "return"} =>
          \A p \in RectPixels(size, x, y, x + text_width - 1, y + text_height - 1) :
              img[p[1]][p[2]] = White
    /\ pc \in {"save", "print", "return"} =>
          \A p \in RectPixels(size, cursor.x, cursor.y, cursor.x + cursor.width,
                              cursor.y + cursor.height) :
              img[p[1]][p[2]] = White
    /\ pc \in {"print", "return"} =>
          files[filename] = [state |-> "png", side |-> size, pixels |-> img]
    /\ pc = "return" => stdout[Len(stdout)] = Created(filename)
    /\ \A n \in Filenames :
          files[n].state = "png" => \E k \in 1..Len(calls) : calls[k][2] = n

C4_Witness ==
    /\ pc = "return"
    /\ font.kind = "default"
    /\ files[filename].state = "png"
    /\ stdout[Len(stdout)] = Created(filename)

(* C5 (as claimed): when the gradient is complete, the top row is within 1 *)
(* per channel of the start colour and the bottom row is within 1 per      *)
(* channel of the end colour.                                              *)
C5_EndpointColours ==
    (pc = "font" /\ size > 0) =>
        \A col \in 0..(size - 1) :
            /\ Near(img[0][col], StartColor)
            /\ Near(img[size - 1][col], EndColor)

(* C6 (as claimed): the rectangle's top-left corner is                     *)
(* (round(0.70*size), round(0.39*size)) and it fills                       *)
(* max(round(0.03*size), 2) pixel columns.                                 *)
C6_RoundedCorner ==
    pc \in {"save", "print", "return"} =>
        /\ cursor.x = Round(size, 70)
        /\ cursor.y = Round(size, 39)
        /\ Cardinality(AccentColumns) = Max(Round(size, 3), 2)

(* C6 (amended): the corner is the truncation, not the rounding, of        *)
(* (0.70*size, 0.39*size), and the rectangle fills                         *)
(* max(floor(0.03*size), 2) + 1 pixel columns, both corners being          *)
(* inclusive.                                                              *)
C6_TruncatedCorner ==
    pc \in {"save", "print", "return"} =>
        /\ cursor.x * 100 <= 70 * size /\ 70 * size < (cursor.x + 1) * 100
        /\ cursor.y * 100 <= 39 * size /\ 39 * size < (cursor.y + 1) * 100
        /\ \E w \in 0..size :
              /\ w * 100 <= 3 * size /\ 3 * size < (w + 1) * 100
              /\ Cardinality(AccentColumns) = Max(w, 2) + 1

C6_Witness ==
    /\ pc = "save"
    /\ size = 48
    /\ cursor.x = 33
    /\ cursor.y = 18
    /\ Cardinality(AccentColumns) = 3

(* C7: from each gradient row to the next R never decreases and G and B    *)
(* never increase, in every column: for the row just painted and the one   *)
(* above it while the gradient is being painted, and for every pair of     *)
(* consecutive rows of the complete gradient.                              *)
C7_GradientMonotonic ==
    pc \in {"gradient", "font", "measure", "text"} =>
        LET pairs == IF pc = "gradient" THEN {y - 2} \cap (0..(size - 2))
                     ELSE 0..(size - 2)
        IN  \A row \in pairs :
                LET upper == img[row]
                    lower == img[row + 1]
                IN  \A col \in 0..(size - 1) :
                        /\ lower[col][1] >= upper[col][1]
                        /\ lower[col][2] <= upper[col][2]
                        /\ lower[col][3] <= upper[col][3]

C7_Witness ==
    /\ pc = "font"
    /\ size = 128
    /\ img[127][0][1] > img[0][0][1]
    /\ img[127][0][2] < img[0][0][2]
    /\ img[127][0][3] < img[0][0][3]

(* C8: what has been printed is always a beginning of: the three           *)
(* confirmations in list order, then the summary; a confirmation is there  *)
(* only if its file has been written, the summary only if all three have;  *)
(* and a run that ends successfully has printed all four lines.            *)
C8_OutputLines ==
    /\ Len(stdout) <= Len(ExpectedOutput)
    /\ \A k \in 1..Len(stdout) :
          /\ stdout[k] = ExpectedOutput[k]
          /\ k <= Len(sizes) => Written(k)
          /\ k > Len(sizes) => \A j \in 1..Len(sizes) : Written(j)
    /\ pc = "done" => stdout = ExpectedOutput

C8_Witness ==
    /\ pc = "done"
    /\ stdout = ExpectedOutput

(* C9: the buffer is size x size from its allocation on and holds, phase   *)
(* by phase: the base colour below the rows painted so far and the         *)
(* gradient colour in them (rows are painted in increasing order), the     *)
(* label over the complete gradient once the text is drawn, the rectangle  *)
(* over both once it is drawn; a file is written only from a buffer that   *)
(* has the rectangle, so every pixel of the rectangle is white in the      *)
(* written image.                                                          *)
C9_BufferPhases ==
    /\ pc \in (RenderPcs \ {"new"}) =>
          LET painted   == IF pc = "gradient" THEN y ELSE size
              textDone  == pc \in {"accent", "save", "print", "return"}
              rectDone  == pc \in {"save", "print", "return"}
          IN  /\ DOMAIN img = 0..(size - 1)
              /\ \A row \in 0..(size - 1) :
                    LET line == img[row]
                        ground == IF row < painted THEN GradientColor(row, size)
                                  ELSE BaseColor
                    IN  /\ DOMAIN line = 0..(size - 1)
                        /\ \A col \in 0..(size - 1) :
                              line[col] =
                                 IF rectDone /\ InAccent(row, col) THEN White
                                 ELSE IF textDone /\ InText(row, col) THEN White
                                 ELSE ground
    /\ \A n \in Filenames :
          files[n].state = "png" =>
              LET s == files[n].side
              IN  \A p \in RectPixels(s, cursor_x(s), cursor_y(s),
                                      cursor_x(s) + cursor_width(s),
                                      cursor_y(s) + cursor_height(s)) :
                      files[n].pixels[p[1]][p[2]] = White

C9_Witness ==
    /\ pc = "print"
    /\ size = 48
    /\ text_width = 0
    /\ files[filename].state = "png"
    /\ files[filename].pixels[18][33] = White
    /\ files[filename].pixels[18][32] = GradientColor(18, 48)

(* C10: the cursor rectangle, both corners inclusive, lies inside the      *)
(* size x size buffer, so none of it is clipped.                           *)
C10_AccentInsideImage ==
    pc \in {"save", "print", "return"} =>
        /\ 0 <= cursor.x
        /\ cursor.x + cursor.width <= size - 1
        /\ 0 <= cursor.y
        /\ cursor.y + cursor.height <= size - 1
        /\ Cardinality(RectPixels(size, cursor.x, cursor.y,
                                  cursor.x + cursor.width,
                                  cursor.y + cursor.height))
             = (cursor.width + 1) * (cursor.height + 1)

C10_Witness ==
    /\ pc = "save"
    /\ size = 16
    /\ cursor = [x |-> 11, y |-> 6, width |-> 2, height |-> 4]

=============================================================================
